---- MODULE Spec2Model ----
(***************************************************************************)
(* Model of pull-request.py: one reconciliation pass (main) against a      *)
(* remote repository, repeated up to MaxRuns times with the same           *)
(* environment.  Every HTTP call main() makes is one step; the remote's    *)
(* answer (status code) is chosen by the environment.                      *)
(***************************************************************************)
EXTENDS Integers, Sequences, FiniteSets, TLC

VARIABLES
    env,        \* the environment variables read at lines 283-293 and line 49
    remote,     \* the remote's open pull requests, in listing order
    run,        \* which invocation of the script this is (1..MaxRuns)
    pc,         \* position of main()
    path,       \* "none" before the branch of line 312, then the step it chose
    log,        \* the HTTP calls and the export of this run, in order
    listing,    \* existing_pr, the value list_pull_requests returned
    entry,      \* the value find_pull_request returned
    response,   \* the requests.Response main() holds
    outputs,    \* the name/value pairs written by set_env_and_output in this run
    hist        \* the summary of the previous run, if there was one

vars == <<env, remote, run, pc, path, log, listing, entry, response, outputs, hist>>

----------------------------------------------------------------------------
(* Bounds of the model *)

MaxPRs == 2     \* open pull requests on the remote before the first run
MaxRuns == 2    \* invocations of the script in one behaviour

(* Status codes the source compares with *)
HTTP_OK == 200
HTTP_CREATED == 201
HTTP_UNAUTHORIZED == 401
HTTP_NOT_FOUND == 404

(* Python's None, as returned by dict.get("number") when the key is absent *)
None == 0

(* Answers the remote may give: to a GET, to the POST or PATCH of a pull   *)
(* request, and to the POST of assignees or reviewers.  422 stands for the *)
(* statuses the source does not name.                                      *)
GetStatus == {HTTP_OK, HTTP_UNAUTHORIZED, HTTP_NOT_FOUND, 422}
WriteStatus == {HTTP_OK, HTTP_CREATED, 422}
AttachStatus == {HTTP_CREATED, 422}

(* Branch names are character sequences: "a", its upper-case variant, and  *)
(* a name that contains "a".                                               *)
HeadRefs == { <<"a">>, <<"A">>, <<"a", "b">> }
Sources == { <<"a">>, <<"a", "b">> }

(* Values of ASSIGNEES, REVIEWERS, TEAM_REVIEWERS: unset (the empty        *)
(* sequence), a quoted name, and two quote characters around nothing.      *)
Unset == << >>
AssigneeValues == { Unset, <<"\"", "x", "\"">> }
ReviewerValues == { Unset, <<"x", " ", "y">> }
TeamValues == { Unset, <<"\"", "\"">>, <<"t">> }

----------------------------------------------------------------------------
(* Helpers *)

Truthy(v) == v # << >>

RECURSIVE split(_, _)
split(s, cur) ==
    IF s = << >> THEN << cur >>
    ELSE IF Head(s) = " " THEN << cur >> \o split(Tail(s), << >>)
    ELSE split(Tail(s), Append(cur, Head(s)))

RECURSIVE lstrip(_)
lstrip(s) == IF s # << >> /\ Head(s) = " " THEN lstrip(Tail(s)) ELSE s

RECURSIVE rstrip(_)
rstrip(s) ==
    IF s # << >> /\ s[Len(s)] = " " THEN rstrip(SubSeq(s, 1, Len(s) - 1)) ELSE s

strip(s) == rstrip(lstrip(s))

(* parse_into_list: drop both quote characters, then split on one space *)
parse_into_list(values) ==
    LET unquoted == SelectSeq(values, LAMBDA c : c \notin {"\"", "'"})
        parts == split(unquoted, << >>)
    IN  IF unquoted = << >> THEN << >>
        ELSE [i \in 1..Len(parts) |-> strip(parts[i])]

(* A pull request record of the remote: its number and its head ref *)
Record(n, ref) == [number |-> n, ref |-> ref]

(* The body of an answer that is no pull request: .get("number") is None *)
ErrorBody == [number |-> None, ref |-> << >>]

(* find_pull_request returns None: no entry *)
NoEntry == [number |-> None, ref |-> << >>]

----------------------------------------------------------------------------
(* The remote and the log of calls *)

Call(k, auth, number, status) ==
    [k |-> k, auth |-> auth, number |-> number, status |-> status]

AttachKinds == {"POST_ASSIGNEES", "POST_REVIEWERS", "POST_TEAMS"}

RemoteLists ==
    UNION { { [i \in 1..n |-> Record(i, f[i])] : f \in [1..n -> HeadRefs] } :
            n \in 0..MaxPRs }

Environments ==
    [source : Sources, update : BOOLEAN, pass : BOOLEAN,
     assignees : AssigneeValues, reviewers : ReviewerValues, team : TeamValues]

(* The number the remote gives to the next pull request it creates *)
NextNumber == Len(remote) + 1

NoResponse == [status |-> None, body |-> ErrorBody]

NoListing == [kind |-> "list", items |-> << >>]

NoOutputs == [n \in {} |-> None]

----------------------------------------------------------------------------
(* Functions of the script *)

(* abort_if_fail: continue when PASS_ON_ERROR is set, otherwise sys.exit *)
(* (variant: the exit is missing) *)
abort_if_fail_never_exits(pass, continue) == continue

abort_if_fail(pass, continue) == IF pass THEN continue ELSE "aborted"

(* set_env_and_output: append name=value to the environment files *)
set_env_and_output(name, value, out) ==
    [n \in DOMAIN out \cup {name} |-> IF n = name THEN value ELSE out[n]]

(* the return code set_pull_request_groups computes, line 152 *)
pull_request_return_code(status) == IF status = HTTP_CREATED THEN 0 ELSE status

(* set_pull_request_groups: the three outputs of a response *)
set_pull_request_groups(resp, out) ==
    set_env_and_output("PULL_REQUEST_URL", resp.body.number,
      set_env_and_output("PULL_REQUEST_RETURN_CODE",
                         pull_request_return_code(resp.status),
        set_env_and_output("PULL_REQUEST_NUMBER", resp.body.number, out)))

(* list_pull_requests, line 180: the answers that warrant a token *)
(* (variant: 404 is forgotten) *)
needs_token_only_401(status) == status = HTTP_UNAUTHORIZED

needs_token(status) == status \in {HTTP_UNAUTHORIZED, HTTP_NOT_FOUND}

Lower(ref) == [i \in 1..Len(ref) |-> IF ref[i] = "A" THEN "a" ELSE ref[i]]

Contains(ref, source) ==
    \E i \in 1..Len(ref) :
        /\ i + Len(source) - 1 <= Len(ref)
        /\ SubSeq(ref, i, i + Len(source) - 1) = source

(* find_pull_request: the first entry whose head ref is the source *)
(* (variant: the comparison ignores case) *)
RECURSIVE find_pull_request_ignoring_case(_, _)
find_pull_request_ignoring_case(items, source) ==
    IF items = << >> THEN NoEntry
    ELSE IF Lower(Head(items).ref) = Lower(source) THEN Head(items)
    ELSE find_pull_request_ignoring_case(Tail(items), source)

RECURSIVE find_pull_request(_, _)
find_pull_request(items, source) ==
    IF items = << >> THEN NoEntry
    ELSE IF Head(items).ref = source THEN Head(items)
    ELSE find_pull_request(Tail(items), source)

(* main, lines 312-325: update a matched entry only when                   *)
(* PULL_REQUEST_UPDATE is set, and open a pull request otherwise           *)
(* (variants: an existing pull request is skipped when update-mode is     *)
(* off; the branch is missing)                                             *)
main_branch_skips_existing(e, update) ==
    IF e # NoEntry THEN (IF update THEN "update" ELSE "done") ELSE "open"

main_branch_always_opens(e, update) == "open"

main_branch(e, update) == IF e # NoEntry /\ update THEN "update" ELSE "open"

(* main, lines 318-321 and 329-332: which attachment is requested *)
wants_reviewers(e) == Truthy(e.reviewers) \/ Truthy(e.team)

(* main, lines 315-322 and 325-332: the step after each step of main *)
(* (variant: set_pull_request_groups is called after the attachments) *)
main_next_exports_last(step, e) ==
    CASE step \in {"update", "open"} ->
            IF Truthy(e.assignees) THEN "assign"
            ELSE IF wants_reviewers(e) THEN "review" ELSE "export"
      [] step = "assign" -> IF wants_reviewers(e) THEN "review" ELSE "export"
      [] step = "review" -> "export"
      [] OTHER -> "done"

main_next(step, e) ==
    CASE step \in {"update", "open"} -> "export"
      [] step = "export" ->
            IF Truthy(e.assignees) THEN "assign"
            ELSE IF wants_reviewers(e) THEN "review" ELSE "done"
      [] step = "assign" -> IF wants_reviewers(e) THEN "review" ELSE "done"
      [] OTHER -> "done"

(* main, lines 319 and 330: the record the attachments are addressed to *)
(* (variant: the update path passes response.json() as the create path does) *)
attach_entry_from_response == response.body

attach_entry == IF path = "update" THEN entry ELSE response.body

----------------------------------------------------------------------------
(* Summaries of the log *)

Count(k) == Cardinality({i \in 1..Len(log) : log[i].k = k})

(* The status each kind of call must have for the script to go on silently *)
SuccessStatus(k) == IF k \in {"GET", "PATCH"} THEN HTTP_OK ELSE HTTP_CREATED

(* Every call of this run was accepted by the remote *)
AllAccepted ==
    \A i \in 1..Len(log) :
        log[i].k # "EXPORT" => log[i].status = SuccessStatus(log[i].k)

Matching(prs, source) == {i \in 1..Len(prs) : prs[i].ref = source}

Created ==
    {i \in 1..Len(log) : log[i].k = "POST_PULLS" /\ log[i].status = HTTP_CREATED}

Summary ==
    [pre |-> Cardinality(Matching(remote, env.source)) - Cardinality(Created),
     creates |-> Count("POST_PULLS"),
     clean |-> AllAccepted /\ pc = "done"]

Terminal == {"done", "aborted", "crashed"}

----------------------------------------------------------------------------
(* The state after the environment is read, lines 283-306 *)

Init ==
    /\ env \in Environments
    /\ remote \in RemoteLists
    /\ run = 1
    /\ pc = "list1"
    /\ path = "none"
    /\ log = << >>
    /\ listing = NoListing
    /\ entry = NoEntry
    /\ response = NoResponse
    /\ outputs = NoOutputs
    /\ hist = << >>

(* list_pull_requests, line 177: the GET without credentials *)
ListFirst ==
    /\ pc = "list1"
    /\ \E s \in GetStatus :
        /\ log' = Append(log, Call("GET", FALSE, None, s))
        /\ response' = [status |-> s, body |-> ErrorBody]
        /\ pc' = IF needs_token(s) THEN "list2" ELSE "listcheck"
    /\ UNCHANGED <<env, remote, run, path, listing, entry, outputs, hist>>

(* list_pull_requests, line 181: the GET with credentials *)
ListRetry ==
    /\ pc = "list2"
    /\ \E s \in GetStatus :
        /\ log' = Append(log, Call("GET", TRUE, None, s))
        /\ response' = [status |-> s, body |-> ErrorBody]
    /\ pc' = "listcheck"
    /\ UNCHANGED <<env, remote, run, path, listing, entry, outputs, hist>>

(* list_pull_requests, lines 182-185: the check of the last answer and the *)
(* value returned.  The body of an answer other than 200 is the remote's   *)
(* choice: an error object, or nothing.                                    *)
ListCheck ==
    /\ pc = "listcheck"
    /\ IF response.status # HTTP_OK
       THEN /\ pc' = abort_if_fail(env.pass, "find")
            /\ IF env.pass
               THEN listing' \in {[kind |-> "object", items |-> << >>], NoListing}
               ELSE listing' = listing
       ELSE /\ pc' = "find"
            /\ listing' = [kind |-> "list", items |-> remote]
    /\ UNCHANGED <<env, remote, run, path, log, entry, response, outputs, hist>>

(* main, lines 310-314: find_pull_request and the branch.  Iterating an    *)
(* error object yields its keys, and str has no get: the script dies.      *)
Find ==
    /\ pc = "find"
    /\ IF listing.kind = "object"
       THEN /\ pc' = "crashed"
            /\ UNCHANGED <<entry, path>>
       ELSE /\ entry' = find_pull_request(listing.items, env.source)
            /\ path' = main_branch(entry', env.update)
            /\ pc' = path'
    /\ UNCHANGED <<env, remote, run, log, listing, response, outputs, hist>>

(* update_pull_request, lines 117-142 *)
Update ==
    /\ pc = "update"
    /\ \E s \in WriteStatus :
        /\ log' = Append(log, Call("PATCH", TRUE, entry.number, s))
        /\ response' = [status |-> s,
                        body |-> IF s = HTTP_OK THEN entry ELSE ErrorBody]
        /\ pc' = IF s # HTTP_OK
                 THEN abort_if_fail(env.pass, main_next("update", env))
                 ELSE main_next("update", env)
    /\ UNCHANGED <<env, remote, run, path, listing, entry, outputs, hist>>

(* open_pull_request, lines 86-114: the remote opens a pull request when   *)
(* it answers 201                                                          *)
Open ==
    /\ pc = "open"
    /\ \E s \in WriteStatus :
        /\ log' = Append(log, Call("POST_PULLS", TRUE, None, s))
        /\ IF s = HTTP_CREATED
           THEN /\ remote' = Append(remote, Record(NextNumber, env.source))
                /\ response' = [status |-> s,
                                body |-> Record(NextNumber, env.source)]
           ELSE /\ remote' = remote
                /\ response' = [status |-> s, body |-> ErrorBody]
        /\ pc' = IF s # HTTP_CREATED
                 THEN abort_if_fail(env.pass, main_next("open", env))
                 ELSE main_next("open", env)
    /\ UNCHANGED <<env, run, path, listing, entry, outputs, hist>>

(* main, lines 316 and 326: set_pull_request_groups(response) *)
Export ==
    /\ pc = "export"
    /\ outputs' = set_pull_request_groups(response, outputs)
    /\ log' = Append(log, Call("EXPORT", FALSE, response.body.number,
                               pull_request_return_code(response.status)))
    /\ pc' = main_next("export", env)
    /\ UNCHANGED <<env, remote, run, path, listing, entry, response, hist>>

(* add_assignees, lines 188-214 *)
Assignees ==
    /\ pc = "assign"
    /\ \E s \in AttachStatus :
        /\ log' = Append(log, Call("POST_ASSIGNEES", TRUE, attach_entry.number, s))
        /\ pc' = IF s # HTTP_CREATED
                 THEN abort_if_fail(env.pass, main_next("assign", env))
                 ELSE main_next("assign", env)
        /\ outputs' = IF pc' = "aborted" THEN outputs
                      ELSE set_env_and_output("ASSIGNEES_RETURN_CODE",
                               IF s = HTTP_CREATED THEN 0 ELSE s, outputs)
    /\ UNCHANGED <<env, remote, run, path, listing, entry, response, hist>>

(* add_reviewers, lines 255-267: the reviewers call *)
Reviewers ==
    /\ pc = "review"
    /\ \E s \in AttachStatus :
        LET after == IF parse_into_list(env.team) # << >> THEN "teams"
                     ELSE main_next("review", env)
        IN  /\ log' = Append(log, Call("POST_REVIEWERS", TRUE,
                                       attach_entry.number, s))
            /\ pc' = IF s # HTTP_CREATED THEN abort_if_fail(env.pass, after)
                     ELSE after
    /\ UNCHANGED <<env, remote, run, path, listing, entry, response, outputs, hist>>

(* add_reviewers, lines 270-275: the team reviewers call *)
TeamReviewers ==
    /\ pc = "teams"
    /\ \E s \in AttachStatus :
        /\ log' = Append(log, Call("POST_TEAMS", TRUE, attach_entry.number, s))
        /\ pc' = IF s # HTTP_CREATED
                 THEN abort_if_fail(env.pass, main_next("review", env))
                 ELSE main_next("review", env)
    /\ UNCHANGED <<env, remote, run, path, listing, entry, response, outputs, hist>>

(* line 336: the script is invoked again, with the same environment *)
Restart ==
    /\ pc \in Terminal
    /\ run < MaxRuns
    /\ hist' = << Summary >>
    /\ run' = run + 1
    /\ pc' = "list1"
    /\ path' = "none"
    /\ log' = << >>
    /\ listing' = NoListing
    /\ entry' = NoEntry
    /\ response' = NoResponse
    /\ outputs' = NoOutputs
    /\ UNCHANGED <<env, remote>>

Next ==
    \/ ListFirst
    \/ ListRetry
    \/ ListCheck
    \/ Find
    \/ Update
    \/ Open
    \/ Export
    \/ Assignees
    \/ Reviewers
    \/ TeamReviewers

(* One invocation of the script *)
Spec == Init /\ [][Next]_vars

(* The script invoked up to MaxRuns times in succession with update-mode   *)
(* (PULL_REQUEST_UPDATE) set                                               *)
InitRerun == Init /\ env.update

NextRerun ==
    \/ Next
    \/ Restart

SpecRerun == InitRerun /\ [][NextRerun]_vars

----------------------------------------------------------------------------
(* Properties *)

Calls(k) == {i \in 1..Len(log) : log[i].k = k}

Attachments == {i \in 1..Len(log) : log[i].k \in AttachKinds}

(* The create or update call of this run failed *)
FailedCreate ==
    \E i \in Calls("POST_PULLS") : log[i].status # HTTP_CREATED

FailedUpdate ==
    \E i \in Calls("PATCH") : log[i].status # HTTP_OK

(* C1: when an entry matched the source branch and update-mode is set, the *)
(* run issues no create call and, once the update step is taken, exactly   *)
(* one PATCH, addressed to the matched entry's number, whatever its        *)
(* status; every assignee or reviewer call is addressed to that number.    *)
C1_UpdateOnly ==
    (entry # NoEntry /\ env.update) =>
        /\ Count("POST_PULLS") = 0
        /\ Count("PATCH") = IF pc = "update" THEN 0 ELSE 1
        /\ \A i \in Calls("PATCH") : log[i].number = entry.number
        /\ \A i \in Attachments : log[i].number = entry.number

C1_Witness ==
    /\ pc = "done"
    /\ entry # NoEntry
    /\ env.update
    /\ FailedUpdate
    /\ Calls("POST_ASSIGNEES") # {}
    /\ Calls("POST_TEAMS") # {}

(* C2: past the lookup, when no entry matched or update-mode is off, the   *)
(* run issues no PATCH and, once the create step is taken, exactly one     *)
(* create call; a matched entry with update-mode off is not skipped.       *)
C2_CreateOnce ==
    (path # "none" /\ (entry = NoEntry \/ ~env.update)) =>
        /\ Count("PATCH") = 0
        /\ Count("POST_PULLS") = IF pc = "open" THEN 0 ELSE 1

C2_Witness ==
    /\ pc = "done"
    /\ entry # NoEntry
    /\ ~env.update
    /\ Count("POST_PULLS") = 1

(* C3: after a run that started with no open pull request for the source,  *)
(* completed and had every call accepted, a second completed run with      *)
(* every call accepted and update-mode set finds that the first run made   *)
(* exactly one create call, makes no create call and one update call       *)
(* itself, and leaves exactly one pull request for the source.             *)
C3_Idempotent ==
    (hist # << >> /\ hist[1].pre = 0 /\ hist[1].clean
        /\ env.update /\ pc = "done" /\ AllAccepted) =>
        /\ hist[1].creates = 1
        /\ Count("POST_PULLS") = 0
        /\ Count("PATCH") = 1
        /\ Cardinality(Matching(remote, env.source)) = 1

C3_Witness ==
    /\ run = 2
    /\ hist # << >>
    /\ hist[1].pre = 0
    /\ hist[1].clean
    /\ pc = "done"
    /\ AllAccepted
    /\ Len(remote) = MaxPRs + 1

(* C4: the exported return code is 0 when the create or update response    *)
(* has status 201 and the raw status otherwise, and every tolerated        *)
(* failure of the create or update call exports a non-zero return code.    *)
C4_ReturnCode ==
    "PULL_REQUEST_RETURN_CODE" \in DOMAIN outputs =>
        /\ outputs["PULL_REQUEST_RETURN_CODE"] =
              IF response.status = HTTP_CREATED THEN 0 ELSE response.status
        /\ (FailedCreate \/ FailedUpdate) =>
              outputs["PULL_REQUEST_RETURN_CODE"] # 0

(* C5: without PASS_ON_ERROR, a create call answered with another status   *)
(* than 201 ends the run there: nothing is exported and no assignee or     *)
(* reviewer call follows.                                                  *)
C5_FatalCreate ==
    (~env.pass /\ FailedCreate) =>
        /\ pc = "aborted"
        /\ outputs = NoOutputs
        /\ Calls("EXPORT") = {}
        /\ Attachments = {}
        /\ log[Len(log)].k = "POST_PULLS"

C5_Witness ==
    /\ ~env.pass
    /\ Truthy(env.assignees)
    /\ pc = "aborted"
    /\ \E i \in Calls("POST_PULLS") : log[i].status = 422

(* C6: with PASS_ON_ERROR set and a failed create call, whose response     *)
(* carries no number, no assignee, reviewer or team-reviewer call is made. *)
C6_NoAttachWithoutNumber ==
    (env.pass /\ FailedCreate) =>
        \A i \in Attachments : log[i].number # None

(* C7: when both assignees and reviewers were requested, a failed          *)
(* assignee call does not keep the run from making the reviewer call.      *)
C7_Independent ==
    (/\ pc \in Terminal
     /\ Truthy(env.assignees)
     /\ wants_reviewers(env)
     /\ \E i \in Calls("POST_ASSIGNEES") : log[i].status # HTTP_CREATED) =>
        Calls("POST_REVIEWERS") # {}

(* C8: the first GET carries no credentials; a second GET, with            *)
(* credentials, is made exactly when the first answer is 401 or 404; there *)
(* is never a third; and a last answer other than 200 without              *)
(* PASS_ON_ERROR ends the run before any other call.                       *)
C8_Lookup ==
    /\ Count("GET") <= 2
    /\ log # << >> => (log[1].k = "GET" /\ ~log[1].auth)
    /\ pc \notin {"list1", "list2"} =>
          (Count("GET") = 2 <=>
              log[1].status \in {HTTP_UNAUTHORIZED, HTTP_NOT_FOUND})
    /\ Count("GET") = 2 => (log[2].k = "GET" /\ log[2].auth)
    /\ (/\ pc \notin {"list1", "list2", "listcheck"}
        /\ log[Count("GET")].status # HTTP_OK
        /\ ~env.pass) =>
          (pc = "aborted" /\ Len(log) = Count("GET"))

C8_Witness ==
    /\ pc = "aborted"
    /\ ~env.pass
    /\ Count("GET") = 2
    /\ log[1].status = HTTP_NOT_FOUND
    /\ log[2].status = HTTP_UNAUTHORIZED

(* C9 as claimed: no export of results precedes an assignee or reviewer    *)
(* call of the same run.                                                   *)
C9_ExportAfterAttach ==
    \A i \in Calls("EXPORT") : \A j \in Attachments : j < i

(* C9: the results are exported once, right after the create or update     *)
(* call, and every assignee or reviewer call of the run comes after the    *)
(* export.                                                                 *)
C9_ExportBeforeAttach ==
    /\ Count("EXPORT") <= 1
    /\ \A i \in Calls("EXPORT") : log[i - 1].k \in {"POST_PULLS", "PATCH"}
    /\ \A j \in Attachments : \E i \in Calls("EXPORT") : i < j

C9_Witness ==
    /\ pc = "done"
    /\ Count("EXPORT") = 1
    /\ Count("POST_ASSIGNEES") = 1
    /\ Count("POST_REVIEWERS") = 1

(* C10: find_pull_request returns the entry of lowest index whose head ref *)
(* equals the source exactly, and none when there is no such entry; an     *)
(* entry that differs from the source in case, or contains it, is not      *)
(* selected.                                                               *)
C10_FirstExactMatch ==
    path # "none" =>
        LET L == listing.items
            S == env.source
            M == Matching(L, S)
        IN  /\ M = {} => entry = NoEntry
            /\ M # {} => entry = L[CHOOSE i \in M : \A j \in M : i <= j]
            /\ entry # NoEntry =>
                  ~(entry.ref # S /\ (Lower(entry.ref) = Lower(S)
                                      \/ Contains(entry.ref, S)))

C10_Witness ==
    /\ path # "none"
    /\ Len(listing.items) = 2
    /\ listing.items[1].ref # env.source
    /\ Lower(listing.items[1].ref) = Lower(env.source)
    /\ listing.items[2].ref = env.source
    /\ entry = listing.items[2]

====
